---- MODULE Spec2Model ----
(***************************************************************************)
(* A model of gorilla-lang: the Pratt parser (package parser), the         *)
(* instruction encoding (package code, known through TestMake) and the     *)
(* stack virtual machine (package vm).                                     *)
(*                                                                         *)
(* Four specifications share the module:                                   *)
(*   Spec       - the virtual machine: New, pushStack, popStack, StackTop  *)
(*                and Run (one step per iteration of its loop);            *)
(*   SpecCode   - the instruction encoding: Make, ReadUint16, TestMake;    *)
(*   SpecParser - the parser: New and ParseProgram over a token stream;    *)
(*   SpecRepl   - the interactive front end: StartWithCompiler, one step   *)
(*                per line read.                                           *)
(***************************************************************************)
EXTENDS Integers, Sequences, FiniteSets, TLC

VARIABLES
    \* ---- package vm: the fields of VM and the position inside Run
    program,        \* the instructions handed to the compiler's Bytecode, before encoding
    instructions,   \* VM.instructions: the byte stream
    constants,      \* VM.constants
    stack,          \* VM.stack: a slice of StackSize slots, indexed from 0
    sp,             \* VM.sp: index of the top slot, -1 when empty
    ip,             \* the loop variable of Run
    vmState,        \* "idle": between calls, "running": inside Run, "panic": a Go panic unwound the call
    lastOp,         \* the method called last
    ret,            \* what the last call returned
    sp0,            \* value of sp when the last call was made
    \* ---- package code: one encode / decode exchange
    mkOp, mkOperands, encoded, decoded, codePc,
    \* ---- package parser: the lexer's input and the fields of Parser
    input,          \* the tokens the lexer produces for the source text, in order
    initialized,    \* Parser.initialized
    cur,            \* index in input of Parser.currentToken; peekToken is the one after it
    calls,          \* number of calls of ParseProgram made so far
    presult,        \* outcome of the last call of ParseProgram
    \* ---- package repl: the locals of StartWithCompiler, its input and its output
    scanner,            \* the lines of in not yet read
    scanned,            \* number of lines read so far
    out,                \* what was written to out, one entry per write of a response
    replConstants,      \* the local variable constants
    globalSymbalTable,  \* the symbol table all compilers of the session share
    globals,            \* the slice of global slots all VMs of the session share
    replPc              \* "idle": not started, "loop": in the for loop, "returned", "panic"

vmVars     == <<program, instructions, constants, stack, sp, ip, vmState, lastOp, ret, sp0>>
codeVars   == <<mkOp, mkOperands, encoded, decoded, codePc>>
parserVars == <<input, initialized, cur, calls, presult>>
replVars   == <<scanner, scanned, out, replConstants, globalSymbalTable, globals, replPc>>
vars       == <<vmVars, codeVars, parserVars, replVars>>

-----------------------------------------------------------------------------
(* Bounds *)

\* capacity of the VM stack in the model; the program's value is 2048 and
\* every comparison of the code is made against this definition
StackSize == 3
\* longest program handed to the VM, in instructions
MaxInstr == 3
\* most operands in a chain of operands joined by infix operators
MaxOperands == 4
\* longest token sequence drawn freely from the whole token alphabet
MaxShort == 3
\* most calls of ParseProgram on one parser
MaxCalls == 2
\* most elements of an array literal
MaxElements == 2
\* most lines of one interactive session
MaxLines == 3

-----------------------------------------------------------------------------
(* package code *)

OpConstant == 0
OpAdd      == 1
OpSetLocal == 2
OpClosure  == 3

OpCodes == {OpConstant, OpAdd, OpSetLocal, OpClosure}

\* operand widths of an opcode, in bytes
OperandWidths(op) ==
    CASE op = OpConstant -> <<2>>
      [] op = OpAdd      -> <<>>
      [] op = OpSetLocal -> <<1>>
      [] op = OpClosure  -> <<2, 1>>

\* binary.BigEndian.PutUint16 of uint16(v)
PutUint16(v) == << ((v % 65536) \div 256), (v % 256) >>

\* one operand in its width, big-endian
PutOperand(v, width) ==
    IF width = 2 THEN PutUint16(v) ELSE << v % 256 >>

RECURSIVE PutOperands(_, _, _)
PutOperands(operands, widths, k) ==
    IF k > Len(widths) \/ k > Len(operands) THEN << >>
    ELSE PutOperand(operands[k], widths[k]) \o PutOperands(operands, widths, k + 1)

\* code.Make: opcode byte, then the operands
Make(op, operands) ==
    IF op \notin OpCodes THEN << >>
    ELSE <<op>> \o PutOperands(operands, OperandWidths(op), 1)

\* code.ReadUint16: big-endian decode of the first two bytes
ReadUint16(bytes) == bytes[1] * 256 + bytes[2]

\* the table of TestMake with the two bytes of each 16-bit operand swapped
TestMakeTestsLittleEndian ==
    << [code |-> OpConstant, operands |-> <<65534>>,      expectedInstructions |-> <<OpConstant, 254, 255>>],
       [code |-> OpSetLocal, operands |-> <<126>>,        expectedInstructions |-> <<OpSetLocal, 126>>],
       [code |-> OpAdd,      operands |-> << >>,          expectedInstructions |-> <<OpAdd>>],
       [code |-> OpClosure,  operands |-> <<65534, 255>>, expectedInstructions |-> <<OpClosure, 254, 255, 255>>] >>

\* the table of TestMake
TestMakeTests ==
    << [code |-> OpConstant, operands |-> <<65534>>,      expectedInstructions |-> <<OpConstant, 255, 254>>],
       [code |-> OpSetLocal, operands |-> <<126>>,        expectedInstructions |-> <<OpSetLocal, 126>>],
       [code |-> OpAdd,      operands |-> << >>,          expectedInstructions |-> <<OpAdd>>],
       [code |-> OpClosure,  operands |-> <<65534, 255>>, expectedInstructions |-> <<OpClosure, 255, 254, 255>>] >>

-----------------------------------------------------------------------------
(* package vm *)

Nil == "nil"
NoErr == "nil"
NoRet == [val |-> Nil, err |-> NoErr]

\* the constant pool of the bytecode under execution
Pool == <<"a", "b">>
Objects == {"a", "b"}

\* the instructions a program is assembled from: constant loads with an
\* in-range index, one with an index past the pool, and opcodes Run has no case for
InstrChoices ==
    { [op |-> OpConstant, operands |-> <<i>>] : i \in 0..Len(Pool) }
      \cup { [op |-> OpAdd, operands |-> << >>], [op |-> OpSetLocal, operands |-> <<0>>] }

RECURSIVE SeqsUpTo(_, _)
SeqsUpTo(S, n) ==
    IF n = 0 THEN { << >> }
    ELSE LET shorter == SeqsUpTo(S, n - 1)
         IN  shorter \cup { Append(s, x) : s \in {t \in shorter : Len(t) = n - 1}, x \in S }

RECURSIVE Assemble(_)
Assemble(prog) ==
    IF prog = << >> THEN << >>
    ELSE Make(Head(prog).op, Head(prog).operands) \o Assemble(Tail(prog))

EmptyStack == [k \in 0..(StackSize - 1) |-> Nil]

\* vm.New
New(prog) ==
    /\ program = prog
    /\ instructions = Assemble(prog)
    /\ constants = Pool
    /\ stack = EmptyStack
    /\ sp = -1

\* pushStack that moves sp but stores nothing in the slot
pushStackNoStore(stk, p, o) ==
    IF p >= StackSize
    THEN [stack |-> stk, sp |-> p, err |-> "Stack full", panic |-> FALSE]
    ELSE [stack |-> stk, sp |-> p + 1, err |-> NoErr, panic |-> p + 1 \notin DOMAIN stk]

\* VM.pushStack on the pair (stack, sp): the new pair, the error returned, and
\* whether the indexing of the slice panicked
pushStack(stk, p, o) ==
    IF p >= StackSize
    THEN [stack |-> stk, sp |-> p, err |-> "Stack full", panic |-> FALSE]
    ELSE IF p + 1 \in DOMAIN stk
         THEN [stack |-> [stk EXCEPT ![p + 1] = o], sp |-> p + 1, err |-> NoErr, panic |-> FALSE]
         ELSE [stack |-> stk, sp |-> p + 1, err |-> NoErr, panic |-> TRUE]

\* popStack without the guard on an empty stack
popStackNoGuard(stk, p) ==
    IF p \in DOMAIN stk
    THEN [sp |-> p - 1, val |-> stk[p], panic |-> FALSE]
    ELSE [sp |-> p, val |-> Nil, panic |-> TRUE]

\* VM.popStack
popStack(stk, p) ==
    IF p < 0
    THEN [sp |-> p, val |-> Nil, panic |-> FALSE]
    ELSE IF p \in DOMAIN stk
         THEN [sp |-> p - 1, val |-> stk[p], panic |-> FALSE]
         ELSE [sp |-> p, val |-> Nil, panic |-> TRUE]

\* VM.StackTop
StackTop(stk, p) ==
    IF p < 0
    THEN [val |-> Nil, panic |-> FALSE]
    ELSE IF p \in DOMAIN stk
         THEN [val |-> stk[p], panic |-> FALSE]
         ELSE [val |-> Nil, panic |-> TRUE]

\* the operand read of Run: code.ReadUint16(v.instructions[ip+1:]), with the
\* bound checks of the slice expression and of the two byte reads
OperandSlice(ins, i) == SubSeq(ins, i + 2, Len(ins))
RunOperandPanics(ins, i) == i + 1 > Len(ins) \/ Len(OperandSlice(ins, i)) < 2
\* an operand read that starts at the opcode byte, v.instructions[ip:]
RunOperandAtOpcode(ins, i) == ReadUint16(SubSeq(ins, i + 1, Len(ins)))
RunOperand(ins, i) == ReadUint16(OperandSlice(ins, i))

\* v.instructions[ip], ip counted from 0
ByteAt(ins, i) == ins[i + 1]

PushStackCall(o) ==
    /\ vmState = "idle"
    /\ LET r == pushStack(stack, sp, o)
       IN  /\ stack' = r.stack
           /\ sp' = r.sp
           /\ ret' = [val |-> Nil, err |-> r.err]
           /\ vmState' = IF r.panic THEN "panic" ELSE "idle"
    /\ lastOp' = "pushStack"
    /\ sp0' = sp
    /\ UNCHANGED <<program, instructions, constants, ip, codeVars, parserVars, replVars>>

PopStackCall ==
    /\ vmState = "idle"
    /\ LET r == popStack(stack, sp)
       IN  /\ sp' = r.sp
           /\ ret' = [val |-> r.val, err |-> NoErr]
           /\ vmState' = IF r.panic THEN "panic" ELSE "idle"
    /\ lastOp' = "popStack"
    /\ sp0' = sp
    /\ UNCHANGED <<program, instructions, constants, stack, ip, codeVars, parserVars, replVars>>

StackTopCall ==
    /\ vmState = "idle"
    /\ LET r == StackTop(stack, sp)
       IN  /\ ret' = [val |-> r.val, err |-> NoErr]
           /\ vmState' = IF r.panic THEN "panic" ELSE "idle"
    /\ lastOp' = "StackTop"
    /\ sp0' = sp
    /\ UNCHANGED <<program, instructions, constants, stack, sp, ip, codeVars, parserVars, replVars>>

\* Run is entered: ip := 0
RunCall ==
    /\ vmState = "idle"
    /\ vmState' = "running"
    /\ ip' = 0
    /\ lastOp' = "Run"
    /\ ret' = NoRet
    /\ sp0' = sp
    /\ UNCHANGED <<program, instructions, constants, stack, sp, codeVars, parserVars, replVars>>

\* one iteration of the loop of Run: the switch on the byte at ip, then ip++
RunStep ==
    /\ vmState = "running"
    /\ ip < Len(instructions)
    /\ IF ByteAt(instructions, ip) = OpConstant
       THEN IF RunOperandPanics(instructions, ip)
            THEN /\ vmState' = "panic"
                 /\ UNCHANGED <<stack, sp, ip, ret>>
            ELSE LET index == RunOperand(instructions, ip)
                 IN  IF index >= Len(constants)
                     THEN /\ vmState' = "panic"
                          /\ ip' = ip + 2
                          /\ UNCHANGED <<stack, sp, ret>>
                     ELSE LET r == pushStack(stack, sp, constants[index + 1])
                          IN  /\ stack' = r.stack
                              /\ sp' = r.sp
                              /\ IF r.panic
                                 THEN /\ vmState' = "panic"
                                      /\ ip' = ip + 2
                                      /\ ret' = ret
                                 ELSE IF r.err # NoErr
                                 THEN /\ vmState' = "idle"
                                      /\ ip' = ip + 2
                                      /\ ret' = [val |-> Nil, err |-> r.err]
                                 ELSE /\ vmState' = "running"
                                      /\ ip' = ip + 3
                                      /\ ret' = ret
       ELSE /\ ip' = ip + 1
            /\ UNCHANGED <<stack, sp, vmState, ret>>
    /\ UNCHANGED <<program, instructions, constants, lastOp, sp0, codeVars, parserVars, replVars>>

\* the loop condition fails: return nil
RunReturn ==
    /\ vmState = "running"
    /\ ip >= Len(instructions)
    /\ vmState' = "idle"
    /\ ret' = [val |-> Nil, err |-> NoErr]
    /\ UNCHANGED <<program, instructions, constants, stack, sp, ip, lastOp, sp0, codeVars, parserVars, replVars>>

\* vm.GlobalSize, scaled to the sessions of the model: a slot for every
\* definition a session can make, and one more
GlobalSize == MaxLines + 1

\* the nil object.Object
NilObject == [type |-> "nil"]

\* compiler.NewSymbolTable(): the names defined, in the order of definition
NewSymbolTable == << >>

\* make([]object.Object, vm.GlobalSize)
NewGlobals == [k \in 0..(GlobalSize - 1) |-> NilObject]

ReplIdle ==
    /\ scanner = << >>
    /\ scanned = 0
    /\ out = << >>
    /\ replConstants = << >>
    /\ globalSymbalTable = NewSymbolTable
    /\ globals = NewGlobals
    /\ replPc = "idle"

ParserIdle ==
    /\ input = << >>
    /\ initialized = FALSE
    /\ cur = -1
    /\ calls = 0
    /\ presult = [outcome |-> "none", program |-> [type |-> "nil"], err |-> [kind |-> "none"]]

CodeIdle ==
    /\ mkOp = OpAdd
    /\ mkOperands = << >>
    /\ encoded = << >>
    /\ decoded = 0
    /\ codePc = "idle"

Init ==
    /\ \E prog \in SeqsUpTo(InstrChoices, MaxInstr) : New(prog)
    /\ ip = 0
    /\ vmState = "idle"
    /\ lastOp = "New"
    /\ ret = NoRet
    /\ sp0 = -1
    /\ CodeIdle
    /\ ParserIdle
    /\ ReplIdle

Next ==
    \/ \E o \in Objects : PushStackCall(o)
    \/ PopStackCall
    \/ StackTopCall
    \/ RunCall
    \/ RunStep
    \/ RunReturn

Spec == Init /\ [][Next]_vars

-----------------------------------------------------------------------------
(* The instruction encoding on its own: one Make, then the operand read of *)
(* the run loop on the encoded instruction.                                 *)

MaxUint16 == (2 ^ 16) - 1
MaxUint8  == (2 ^ 8) - 1

\* the operand lists Make is called with: every 16-bit constant index and two
\* values past it, every local slot, and closures at the corners of both widths
MakeInputs ==
    { <<OpConstant, <<i>> >> : i \in 0..(MaxUint16 + 2) }
      \cup { <<OpSetLocal, <<k>> >> : k \in 0..MaxUint8 }
      \cup { <<OpAdd, << >> >> }
      \cup { <<OpClosure, <<i, k>> >> : i \in {0, 1, 255, 256, 65534, MaxUint16}, k \in {0, 126, MaxUint8} }

VMIdle ==
    /\ New(<< >>)
    /\ ip = 0
    /\ vmState = "idle"
    /\ lastOp = "New"
    /\ ret = NoRet
    /\ sp0 = -1

InitCode ==
    /\ \E in \in MakeInputs : mkOp = in[1] /\ mkOperands = in[2]
    /\ encoded = << >>
    /\ decoded = 0
    /\ codePc = "idle"
    /\ VMIdle
    /\ ParserIdle
    /\ ReplIdle

\* instructions := Make(op, operands...)
MakeCall ==
    /\ codePc = "idle"
    /\ encoded' = Make(mkOp, mkOperands)
    /\ codePc' = "made"
    /\ UNCHANGED <<mkOp, mkOperands, decoded, vmVars, parserVars, replVars>>

\* the run loop's read of a 2-byte operand of the instruction at ip = 0
ReadOperandCall ==
    /\ codePc = "made"
    /\ Len(OperandWidths(mkOp)) > 0
    /\ OperandWidths(mkOp)[1] = 2
    /\ ~ RunOperandPanics(encoded, 0)
    /\ decoded' = RunOperand(encoded, 0)
    /\ codePc' = "read"
    /\ UNCHANGED <<mkOp, mkOperands, encoded, vmVars, parserVars, replVars>>

NextCode ==
    \/ MakeCall
    \/ ReadOperandCall

SpecCode == InitCode /\ [][NextCode]_vars

-----------------------------------------------------------------------------
(* Properties of the virtual machine, checked under Spec *)

\* C1: pushStack on a stack that already holds StackSize values (sp = StackSize - 1)
\* returns the error "Stack full" and leaves sp and the stack unchanged.
C1_PushOnFullStackFails ==
    [][ (vmState = "idle" /\ sp = StackSize - 1 /\ lastOp' = "pushStack")
          => (vmState' = "idle" /\ ret'.err = "Stack full" /\ sp' = sp /\ stack' = stack) ]_vars

\* C2: the stack pointer stays within the capacity of the stack,
\* -1 <= sp <= StackSize - 1, in every reachable state.
C2_SpWithinCapacity == sp >= -1 /\ sp <= StackSize - 1

\* a program made of constant loads with in-range pool indices only
ConstLoadsOnly(prog) ==
    \A k \in 1..Len(prog) :
        /\ prog[k].op = OpConstant
        /\ prog[k].operands[1] \in 0..(Len(constants) - 1)

\* C3: Run of a program of n constant loads with in-range indices, on a stack
\* with room for them (in particular a fresh one, n <= StackSize), returns no
\* error and leaves constants[i1]..constants[in] on the stack in that order,
\* constants[in] on top; one load on a fresh VM leaves sp = 0 and that constant
\* as StackTop.
C3_ConstLoadsLeaveConstants ==
    ( /\ lastOp = "Run"
      /\ vmState # "running"
      /\ ConstLoadsOnly(program)
      /\ sp0 + Len(program) <= StackSize - 1 )
    => /\ vmState = "idle"
       /\ ret.err = NoErr
       /\ sp = sp0 + Len(program)
       /\ \A k \in 1..Len(program) :
              stack[sp0 + k] = constants[program[k].operands[1] + 1]
       /\ (Len(program) = 1 /\ sp0 = -1)
             => (sp = 0 /\ StackTop(stack, sp).val = constants[program[1].operands[1] + 1])

\* Run has returned from a program of two or more constant loads, two of them
\* different, and the stack is now filled to its capacity
C3_Witness ==
    /\ lastOp = "Run"
    /\ vmState = "idle"
    /\ ConstLoadsOnly(program)
    /\ Len(program) >= 2
    /\ program[1] # program[2]
    /\ sp0 + Len(program) = StackSize - 1
    /\ sp = StackSize - 1

\* C14: when the byte at the instruction pointer is not an opcode Run executes
\* (Run has a case for OpConstant only), Run returns an error and executes
\* nothing more: the step that meets such a byte ends the call with ret.err set.
C14_UnknownOpcodeFails ==
    [][ (vmState = "running" /\ ip < Len(instructions) /\ ByteAt(instructions, ip) # OpConstant)
          => (vmState' = "idle" /\ ret'.err # NoErr) ]_vars

\* C16: popStack and StackTop on an empty stack (sp = -1) return nil without a
\* fault and leave sp at -1 and the slots as they were, so pops on the empty
\* stack of a fresh VM leave it as New made it.
C16_PopOnEmptyReturnsNil ==
    [][ (vmState = "idle" /\ sp = -1 /\ lastOp' \in {"popStack", "StackTop"})
          => (vmState' = "idle" /\ ret' = NoRet /\ sp' = -1 /\ stack' = stack) ]_vars

\* popStack has just returned nil from a stack that was emptied by earlier
\* pops, a stale value still in a slot
C16_Witness ==
    /\ lastOp = "popStack"
    /\ vmState = "idle"
    /\ sp0 = -1
    /\ sp = -1
    /\ ret = NoRet
    /\ stack # EmptyStack

\* the offsets at which the instructions of prog start in its encoding,
\* counted from offset at, and the offset after the last one
RECURSIVE InstructionBoundaries(_, _)
InstructionBoundaries(prog, at) ==
    IF prog = << >> THEN {at}
    ELSE {at} \cup InstructionBoundaries(Tail(prog),
                       at + Len(Make(Head(prog).op, Head(prog).operands)))

\* C19: inside Run the instruction pointer is always on an instruction
\* boundary of the encoded program (the start of an instruction or the end of
\* the stream), so no operand byte is decoded as an opcode.
C19_DispatchOnBoundaries ==
    vmState = "running" => ip \in InstructionBoundaries(program, 0)

-----------------------------------------------------------------------------
(* package token, package lexer and package ast as the parser uses them *)

LOWEST_PRECEDENCE == 0

\* token.GetPrefixOperators, token.GetInfixOperators, token.GetPostfixOperators
PrefixOperators  == {"MINUS", "BANG"}
InfixOperators   == {"LT", "PLUS", "MINUS", "ASTERISK"}
PostfixOperators == {"INC"}

\* Token.Precedence: the operator-to-precedence table, by token type
Precedence(type) ==
    CASE type = "LT"                  -> 1
      [] type \in {"PLUS", "MINUS"}   -> 2
      [] type = "ASTERISK"            -> 3
      [] type = "BANG"                -> 4
      [] type = "INC"                 -> 5
      [] type \in {"LPAREN", "LBRACKET"} -> 6
      [] OTHER                        -> LOWEST_PRECEDENCE

ZeroPos == [Line |-> 0, Column |-> 0]

\* the zero value of token.Token, held by currentToken and peekToken before the
\* first two calls of nextToken
ZeroToken == [Type |-> "", Literal |-> "", Pos |-> ZeroPos]

\* the k-th token the lexer returns: the tokens of the input, then end-of-input
\* for ever
Tok(toks, k) ==
    IF k < 1 THEN ZeroToken
    ELSE IF k > Len(toks)
         THEN [Type |-> "EOF", Literal |-> "", Pos |-> [Line |-> 1, Column |-> Len(toks) + 1]]
         ELSE [Type |-> toks[k].Type, Literal |-> toks[k].Literal, Pos |-> [Line |-> 1, Column |-> k]]

\* the place of malformed input: there the lexer calls its error handler
Malformed(toks, k) == k \in 1..Len(toks) /\ toks[k].Type = "MALFORMED"

\* strconv.ParseInt(literal, 0, 64) on the integer literals of the inputs:
\* base prefixes are honoured, a value past 2^63-1 is an error
IntLiterals == {"1", "2", "0x10", "9223372036854775808"}
ParseIntFails(lit) == lit = "9223372036854775808"
ParseIntValue(lit) ==
    CASE lit = "1"    -> 1
      [] lit = "2"    -> 2
      [] lit = "0x10" -> 16
      [] OTHER        -> 0

\* ---- values that are raised: ParserError, and the string the lexer's handler panics with
NoError == [kind |-> "none", msg |-> << >>, errorToken |-> ZeroToken, pos |-> ZeroPos]

\* ParserError{msg: ..., errorToken: ...}: the field pos is left at its zero value
ParserError(msg, tok) == [kind |-> "ParserError", msg |-> msg, errorToken |-> tok, pos |-> ZeroPos]

\* ParserError.Error: the message, then the line and the column of the field pos
Error(p) == [msg |-> p.msg, line |-> p.pos.Line, column |-> p.pos.Column]

\* the handler given to lexer.New: panic(fmt.Sprintf("%s at line: %d, column: %d", ...)), a string
LexerPanic(tok) == [kind |-> "string", msg |-> <<"malformed input">>, errorToken |-> ZeroToken, pos |-> tok.Pos]

ExpectedMsg(expect, got) == <<"expectd token type is", expect, "got", got>>

\* ---- ast
NilNode == [type |-> "nil"]

Identifier(tok) == [type |-> "Identifier", Token |-> tok, Value |-> tok.Literal]

\* ---- the result of a parse function: the cursor it leaves, the value it
\* raised (NoError when it returned) and the node it returned
Ok(i, ast)  == [i |-> i, err |-> NoError, ast |-> ast]
Fail(i, e)  == [i |-> i, err |-> e, ast |-> NilNode]
Failed(r)   == r.err.kind # "none"

-----------------------------------------------------------------------------
(* package parser *)

\* Parser.nextToken with the cursor on token i: currentToken becomes token
\* i + 1 and the lexer is asked for token i + 2
nextToken(toks, i) ==
    IF Malformed(toks, i + 2)
    THEN Fail(i + 1, LexerPanic(Tok(toks, i + 2)))
    ELSE Ok(i + 1, NilNode)

\* Parser.assertTokenType(expect, actual), actual being token k
assertTokenType(toks, i, expect, k) ==
    IF Tok(toks, k).Type # expect
    THEN Fail(i, ParserError(ExpectedMsg(expect, Tok(toks, k).Type), Tok(toks, k)))
    ELSE nextToken(toks, i)

assertNextTokenType(toks, i, expect)    == assertTokenType(toks, i, expect, i + 1)
assertCurrentTokenType(toks, i, expect) == assertTokenType(toks, i, expect, i)

peekTokenTypeIs(toks, i, expect)    == Tok(toks, i + 1).Type = expect
currentTokenTypeIs(toks, i, expect) == Tok(toks, i).Type = expect

\* the closing "if p.peekTokenTypeIs(token.SEMICOLON) { p.nextToken() }" of the statements
skipSemicolon(toks, i, node) ==
    IF peekTokenTypeIs(toks, i, "SEMICOLON")
    THEN LET n == nextToken(toks, i)
         IN  IF Failed(n) THEN n ELSE Ok(n.i, node)
    ELSE Ok(i, node)

\* the token types New registers a prefix function or an infix function for
PrefixTypes ==
    {"IDENT", "INT", "TRUE", "FALSE", "STRING", "IF", "FUNCTION", "LBRACKET", "LBRACE", "LPAREN"}
      \cup PrefixOperators
InfixTypes == {"LPAREN", "LBRACKET"} \cup InfixOperators \cup PostfixOperators

parseIdentifier(toks, i) == Ok(i, Identifier(Tok(toks, i)))

parseInteger(toks, i) ==
    LET tok == Tok(toks, i)
    IN  IF ParseIntFails(tok.Literal)
        THEN Fail(i, ParserError(<<"could not parse as intger", tok.Literal>>, tok))
        ELSE Ok(i, [type |-> "Integer", Token |-> tok, Value |-> ParseIntValue(tok.Literal)])

parseBoolean(toks, i) ==
    LET tok == Tok(toks, i)
    IN  IF tok.Type \in {"TRUE", "FALSE"}
        THEN Ok(i, [type |-> "Boolean", Token |-> tok, Value |-> (tok.Type = "TRUE")])
        ELSE Fail(i, ParserError(<<"could not parse as boolean", tok.Literal>>, tok))

parseString(toks, i) ==
    Ok(i, [type |-> "String", Token |-> Tok(toks, i), Value |-> Tok(toks, i).Literal])

parsePostfix(toks, i, left) ==
    Ok(i, [type |-> "PostfixExpression", Token |-> Tok(toks, i), Left |-> left,
           Operator |-> Tok(toks, i).Literal])

\* the sequencing of Go statements: when r was raised (a panic is unwinding) the
\* rest is skipped and r is the outcome, otherwise the rest K runs on r
Bind(r, K(_)) == IF Failed(r) THEN r ELSE K(r)

RECURSIVE parseStatement(_, _), parseLetStatement(_, _), parseReturnStatement(_, _),
          parseExpressionStatement(_, _), parseExpression(_, _, _), infixLoop(_, _, _),
          prefixFn(_, _), infixFn(_, _, _), parsePrefix(_, _), parseInfix(_, _, _),
          parseGroupedExpression(_, _), parseIfExpression(_, _), parseBlockExpression(_, _),
          blockLoop(_, _, _), parseFunction(_, _), parseArrayLiteral(_, _), arrayLoop(_, _, _),
          parseParameters(_, _), parametersLoop(_, _, _), parseHashLiteral(_, _),
          hashLoop(_, _, _), parseCallExpression(_, _, _), callLoop(_, _, _),
          parseIndexExpression(_, _, _), parametersLoopPastEOF(_, _, _)

\* Parser.parseStatement
parseStatement(toks, i) ==
    CASE Tok(toks, i).Type = "LET"    -> parseLetStatement(toks, i)
      [] Tok(toks, i).Type = "RETURN" -> parseReturnStatement(toks, i)
      [] OTHER                        -> parseExpressionStatement(toks, i)

\* "if fe, ok := express.(*ast.FunctionExpression); ok { fe.Name = letStatement.Name }":
\* the value of the let statement after it
nameFunction(express, name) ==
    IF express.type = "FunctionExpression" THEN [express EXCEPT !.Name = name] ELSE express

\* parseLetStatement in which the name is given to no function
parseLetStatementNoName(toks, i) ==
    Bind(assertNextTokenType(toks, i, "IDENT"), LAMBDA a1 :
    Bind(assertNextTokenType(toks, a1.i, "ASSIGN"), LAMBDA a2 :
    Bind(nextToken(toks, a2.i), LAMBDA n :
    Bind(parseExpression(toks, n.i, LOWEST_PRECEDENCE), LAMBDA express :
    skipSemicolon(toks, express.i,
        [type |-> "LetStatement", Token |-> Tok(toks, i),
         Name |-> Identifier(Tok(toks, a1.i)),
         Value |-> express.ast])))))

\* Parser.parseLetStatement
parseLetStatement(toks, i) ==
    Bind(assertNextTokenType(toks, i, "IDENT"), LAMBDA a1 :
    Bind(assertNextTokenType(toks, a1.i, "ASSIGN"), LAMBDA a2 :
    Bind(nextToken(toks, a2.i), LAMBDA n :
    Bind(parseExpression(toks, n.i, LOWEST_PRECEDENCE), LAMBDA express :
    skipSemicolon(toks, express.i,
        [type |-> "LetStatement", Token |-> Tok(toks, i),
         Name |-> Identifier(Tok(toks, a1.i)),
         Value |-> nameFunction(express.ast, Identifier(Tok(toks, a1.i)))])))))

\* Parser.parseReturnStatement
parseReturnStatement(toks, i) ==
    IF ~ peekTokenTypeIs(toks, i, "SEMICOLON")
    THEN Bind(nextToken(toks, i), LAMBDA n :
         Bind(parseExpression(toks, n.i, LOWEST_PRECEDENCE), LAMBDA express :
         skipSemicolon(toks, express.i,
             [type |-> "ReturnStatement", Token |-> Tok(toks, i), Value |-> express.ast])))
    ELSE skipSemicolon(toks, i,
             [type |-> "ReturnStatement", Token |-> Tok(toks, i), Value |-> NilNode])

\* Parser.parseExpressionStatement
parseExpressionStatement(toks, i) ==
    Bind(parseExpression(toks, i, LOWEST_PRECEDENCE), LAMBDA value :
    skipSemicolon(toks, value.i,
        [type |-> "ExpressionStatement", Token |-> Tok(toks, i), Value |-> value.ast]))

\* p.prefixFns[type]()
prefixFn(toks, i) ==
    CASE Tok(toks, i).Type = "IDENT"              -> parseIdentifier(toks, i)
      [] Tok(toks, i).Type = "INT"                -> parseInteger(toks, i)
      [] Tok(toks, i).Type \in {"TRUE", "FALSE"}  -> parseBoolean(toks, i)
      [] Tok(toks, i).Type = "STRING"             -> parseString(toks, i)
      [] Tok(toks, i).Type = "IF"                 -> parseIfExpression(toks, i)
      [] Tok(toks, i).Type = "FUNCTION"           -> parseFunction(toks, i)
      [] Tok(toks, i).Type = "LBRACKET"           -> parseArrayLiteral(toks, i)
      [] Tok(toks, i).Type = "LBRACE"             -> parseHashLiteral(toks, i)
      [] Tok(toks, i).Type = "LPAREN"             -> parseGroupedExpression(toks, i)
      [] Tok(toks, i).Type \in PrefixOperators    -> parsePrefix(toks, i)

\* p.infixFns[type](left); the postfix operators are registered last
infixFn(toks, i, left) ==
    CASE Tok(toks, i).Type \in PostfixOperators -> parsePostfix(toks, i, left)
      [] Tok(toks, i).Type \in InfixOperators   -> parseInfix(toks, i, left)
      [] Tok(toks, i).Type = "LPAREN"           -> parseCallExpression(toks, i, left)
      [] Tok(toks, i).Type = "LBRACKET"         -> parseIndexExpression(toks, i, left)

\* the for loop of parseExpression, left being the result so far
infixLoop(toks, left, precedence) ==
    IF /\ ~ peekTokenTypeIs(toks, left.i, "SEMICOLON")
       /\ precedence < Precedence(Tok(toks, left.i + 1).Type)
       /\ Tok(toks, left.i + 1).Type \in InfixTypes
    THEN Bind(nextToken(toks, left.i), LAMBDA n :
         Bind(infixFn(toks, n.i, left.ast), LAMBDA folded :
         infixLoop(toks, folded, precedence)))
    ELSE left

\* Parser.parseExpression
parseExpression(toks, i, precedence) ==
    IF Tok(toks, i).Type \notin PrefixTypes
    THEN Fail(i, ParserError(<<"can not parse token type", Tok(toks, i).Type>>, Tok(toks, i)))
    ELSE Bind(prefixFn(toks, i), LAMBDA left : infixLoop(toks, left, precedence))

\* parsePrefix that parses its operand from the lowest precedence
parsePrefixLowest(toks, i) ==
    Bind(nextToken(toks, i), LAMBDA n :
    Bind(parseExpression(toks, n.i, LOWEST_PRECEDENCE), LAMBDA value :
    Ok(value.i, [type |-> "PrefixExpression", Token |-> Tok(toks, i),
                 Operator |-> Tok(toks, i).Literal, Value |-> value.ast])))

\* Parser.parsePrefix
parsePrefix(toks, i) ==
    Bind(nextToken(toks, i), LAMBDA n :
    Bind(parseExpression(toks, n.i, Precedence(Tok(toks, i).Type)), LAMBDA value :
    Ok(value.i, [type |-> "PrefixExpression", Token |-> Tok(toks, i),
                 Operator |-> Tok(toks, i).Literal, Value |-> value.ast])))

\* parseInfix that parses its right operand from one precedence lower
parseInfixRightAssoc(toks, i, left) ==
    Bind(nextToken(toks, i), LAMBDA n :
    Bind(parseExpression(toks, n.i, Precedence(Tok(toks, i).Type) - 1), LAMBDA right :
    Ok(right.i, [type |-> "InfixExpression", Token |-> Tok(toks, i), Left |-> left,
                 Operator |-> Tok(toks, i).Literal, Right |-> right.ast])))

\* Parser.parseInfix
parseInfix(toks, i, left) ==
    Bind(nextToken(toks, i), LAMBDA n :
    Bind(parseExpression(toks, n.i, Precedence(Tok(toks, i).Type)), LAMBDA right :
    Ok(right.i, [type |-> "InfixExpression", Token |-> Tok(toks, i), Left |-> left,
                 Operator |-> Tok(toks, i).Literal, Right |-> right.ast])))

\* Parser.parseGroupedExpression
parseGroupedExpression(toks, i) ==
    Bind(assertCurrentTokenType(toks, i, "LPAREN"), LAMBDA a1 :
    Bind(parseExpression(toks, a1.i, LOWEST_PRECEDENCE), LAMBDA expression :
    Bind(assertNextTokenType(toks, expression.i, "RPAREN"), LAMBDA a2 :
    Ok(a2.i, expression.ast))))

\* the else branch of parseIfExpression, node being the expression without it
parseElse(toks, i, node) ==
    IF peekTokenTypeIs(toks, i, "ELSE")
    THEN Bind(nextToken(toks, i), LAMBDA n :
         Bind(assertNextTokenType(toks, n.i, "LBRACE"), LAMBDA a3 :
         Bind(parseBlockExpression(toks, a3.i), LAMBDA body :
         Ok(body.i, [node EXCEPT !.ElseBody = body.ast]))))
    ELSE Ok(i, node)

\* Parser.parseIfExpression
parseIfExpression(toks, i) ==
    IF ~ currentTokenTypeIs(toks, i, "IF")
    THEN Fail(i, ParserError(ExpectedMsg("IF", Tok(toks, i).Type), Tok(toks, i)))
    ELSE Bind(assertNextTokenType(toks, i, "LPAREN"), LAMBDA a1 :
         Bind(parseExpression(toks, a1.i, LOWEST_PRECEDENCE), LAMBDA condition :
         Bind(assertCurrentTokenType(toks, condition.i, "RPAREN"), LAMBDA a2 :
         Bind(parseBlockExpression(toks, a2.i), LAMBDA body :
         parseElse(toks, body.i,
             [type |-> "IfExpression", Token |-> Tok(toks, i), Condition |-> condition.ast,
              ThenBody |-> body.ast, ElseBody |-> NilNode])))))

\* the for loop of parseBlockExpression
blockLoop(toks, i, statements) ==
    IF ~ currentTokenTypeIs(toks, i, "RBRACE") /\ ~ currentTokenTypeIs(toks, i, "EOF")
    THEN Bind(parseStatement(toks, i), LAMBDA statement :
         Bind(nextToken(toks, statement.i), LAMBDA n :
         blockLoop(toks, n.i, Append(statements, statement.ast))))
    ELSE Ok(i, statements)

\* the check of the closing token after the loop of a block, an array, a hash
\* or a parameter list: on token i, node being what is returned
closing(toks, i, expect, node) ==
    IF Tok(toks, i).Type # expect
    THEN Fail(i, ParserError(ExpectedMsg(expect, Tok(toks, i).Type), Tok(toks, i)))
    ELSE Ok(i, node)

\* Parser.parseBlockExpression
parseBlockExpression(toks, i) ==
    Bind(assertCurrentTokenType(toks, i, "LBRACE"), LAMBDA a1 :
    Bind(blockLoop(toks, a1.i, << >>), LAMBDA loop :
    closing(toks, loop.i, "RBRACE",
        [type |-> "BlockExpression", Token |-> Tok(toks, i), Statements |-> loop.ast])))

\* "if p.peekTokenTypeIs(token.IDENT) { p.nextToken(); ... }" of parseFunction
functionName(toks, i) ==
    IF peekTokenTypeIs(toks, i, "IDENT")
    THEN Bind(nextToken(toks, i), LAMBDA n : Ok(n.i, Identifier(Tok(toks, n.i))))
    ELSE Ok(i, NilNode)

\* Parser.parseFunction
parseFunction(toks, i) ==
    Bind(functionName(toks, i), LAMBDA name :
    Bind(assertNextTokenType(toks, name.i, "LPAREN"), LAMBDA a1 :
    Bind(parseParameters(toks, a1.i), LAMBDA parameters :
    Bind(assertNextTokenType(toks, parameters.i, "LBRACE"), LAMBDA a2 :
    Bind(parseBlockExpression(toks, a2.i), LAMBDA body :
    Ok(body.i, [type |-> "FunctionExpression", Token |-> Tok(toks, i), Name |-> name.ast,
                Parameters |-> parameters.ast, Body |-> body.ast]))))))

\* "if p.currentTokenTypeIs(token.COMMA) { p.nextToken() }" after an element
skipComma(toks, i) ==
    IF currentTokenTypeIs(toks, i, "COMMA") THEN nextToken(toks, i) ELSE Ok(i, NilNode)

\* the for loop of parseArrayLiteral
arrayLoop(toks, i, elements) ==
    IF Tok(toks, i).Type # "RBRACKET" /\ Tok(toks, i).Type # "EOF"
    THEN Bind(parseExpression(toks, i, LOWEST_PRECEDENCE), LAMBDA element :
         Bind(nextToken(toks, element.i), LAMBDA n1 :
         Bind(skipComma(toks, n1.i), LAMBDA n2 :
         arrayLoop(toks, n2.i, Append(elements, element.ast)))))
    ELSE Ok(i, elements)

\* parseArrayLiteral after the opening bracket, the cursor on token i
arrayBody(toks, i, tok) ==
    IF peekTokenTypeIs(toks, i, "RBRACKET")
    THEN Bind(nextToken(toks, i), LAMBDA n :
         Ok(n.i, [type |-> "ArrayLiteral", Token |-> tok, Elements |-> << >>]))
    ELSE Bind(arrayLoop(toks, i, << >>), LAMBDA loop :
         closing(toks, loop.i, "RBRACKET",
             [type |-> "ArrayLiteral", Token |-> tok, Elements |-> loop.ast]))

\* Parser.parseArrayLiteral
parseArrayLiteral(toks, i) ==
    Bind(assertCurrentTokenType(toks, i, "LBRACKET"), LAMBDA a1 :
    arrayBody(toks, a1.i, Tok(toks, i)))

\* the for loop of parseParameters that notices end-of-input one token late
parametersLoopPastEOF(toks, i, params) ==
    IF ~ currentTokenTypeIs(toks, i, "RPAREN") /\ ~ currentTokenTypeIs(toks, i - 1, "EOF")
    THEN Bind(nextToken(toks, i), LAMBDA n1 :
         Bind(skipComma(toks, n1.i), LAMBDA n2 :
         parametersLoopPastEOF(toks, n2.i, Append(params, Identifier(Tok(toks, i))))))
    ELSE Ok(i, params)

\* the for loop of parseParameters
parametersLoop(toks, i, params) ==
    IF ~ currentTokenTypeIs(toks, i, "RPAREN") /\ ~ currentTokenTypeIs(toks, i, "EOF")
    THEN Bind(nextToken(toks, i), LAMBDA n1 :
         Bind(skipComma(toks, n1.i), LAMBDA n2 :
         parametersLoop(toks, n2.i, Append(params, Identifier(Tok(toks, i))))))
    ELSE Ok(i, params)

\* Parser.parseParameters
parseParameters(toks, i) ==
    Bind(nextToken(toks, i), LAMBDA n :
    Bind(parametersLoop(toks, n.i, << >>), LAMBDA loop :
    closing(toks, loop.i, "RPAREN", loop.ast)))

\* the for loop of parseHashLiteral; the map is the set of its (key, value) entries
hashLoop(toks, i, pairs) ==
    IF Tok(toks, i).Type # "RBRACE" /\ Tok(toks, i).Type # "EOF"
    THEN Bind(parseExpression(toks, i, LOWEST_PRECEDENCE), LAMBDA k :
         Bind(assertNextTokenType(toks, k.i, "COLON"), LAMBDA a1 :
         Bind(nextToken(toks, a1.i), LAMBDA n1 :
         Bind(parseExpression(toks, n1.i, LOWEST_PRECEDENCE), LAMBDA v :
         Bind(nextToken(toks, v.i), LAMBDA n2 :
         Bind(skipComma(toks, n2.i), LAMBDA n3 :
         hashLoop(toks, n3.i, pairs \cup { <<k.ast, v.ast>> })))))))
    ELSE Ok(i, pairs)

\* parseHashLiteral after the opening brace, the cursor on token i
hashBody(toks, i, tok) ==
    IF peekTokenTypeIs(toks, i, "RBRACE")
    THEN Bind(nextToken(toks, i), LAMBDA n :
         Ok(n.i, [type |-> "HashLiteral", Token |-> tok, Pair |-> { }]))
    ELSE Bind(hashLoop(toks, i, { }), LAMBDA loop :
         closing(toks, loop.i, "RBRACE",
             [type |-> "HashLiteral", Token |-> tok, Pair |-> loop.ast]))

\* Parser.parseHashLiteral
parseHashLiteral(toks, i) ==
    Bind(assertCurrentTokenType(toks, i, "LBRACE"), LAMBDA a1 :
    hashBody(toks, a1.i, Tok(toks, i)))

\* "if p.currentToken.Type != token.COMMA { arg := ...; args = append(args, arg) }"
callArgument(toks, i, args) ==
    IF Tok(toks, i).Type # "COMMA"
    THEN Bind(parseExpression(toks, i, LOWEST_PRECEDENCE), LAMBDA arg :
         Ok(arg.i, Append(args, arg.ast)))
    ELSE Ok(i, args)

\* the for loop of parseCallExpression
callLoop(toks, i, args) ==
    IF Tok(toks, i).Type # "RPAREN"
    THEN Bind(callArgument(toks, i, args), LAMBDA more :
         Bind(nextToken(toks, more.i), LAMBDA n :
         callLoop(toks, n.i, more.ast)))
    ELSE Ok(i, args)

\* Parser.parseCallExpression
parseCallExpression(toks, i, fun) ==
    Bind(assertCurrentTokenType(toks, i, "LPAREN"), LAMBDA a1 :
    Bind(callLoop(toks, a1.i, << >>), LAMBDA loop :
    Ok(loop.i, [type |-> "CallExpression", Token |-> Tok(toks, i), Function |-> fun,
                Arguments |-> loop.ast])))

\* Parser.parseIndexExpression
parseIndexExpression(toks, i, ex) ==
    Bind(assertCurrentTokenType(toks, i, "LBRACKET"), LAMBDA a1 :
    Bind(parseExpression(toks, a1.i, LOWEST_PRECEDENCE), LAMBDA index :
    Bind(assertNextTokenType(toks, index.i, "RBRACKET"), LAMBDA a2 :
    Ok(a2.i, [type |-> "InfixExpression", Token |-> Tok(toks, i), Left |-> ex,
              Operator |-> Tok(toks, i).Literal, Right |-> index.ast]))))

\* what the for loop of ParseProgram does on a fault when it does not stop: the
\* statement is left out and the loop goes on after the next token
skipFault(toks, statement, statements) ==
    IF Failed(statement) THEN Ok(statement.i, statements)
    ELSE Ok(statement.i, Append(statements, statement.ast))

\* the for loop of ParseProgram that goes on with the next token after a fault
RECURSIVE programLoopSkipFaults(_, _, _), programLoop(_, _, _)
programLoopSkipFaults(toks, i, statements) ==
    IF ~ currentTokenTypeIs(toks, i, "EOF")
    THEN Bind(skipFault(toks, parseStatement(toks, i), statements), LAMBDA more :
         Bind(nextToken(toks, more.i), LAMBDA n :
         programLoopSkipFaults(toks, n.i, more.ast)))
    ELSE Ok(i, statements)

\* the for loop of ParseProgram
programLoop(toks, i, statements) ==
    IF ~ currentTokenTypeIs(toks, i, "EOF")
    THEN Bind(parseStatement(toks, i), LAMBDA statement :
         Bind(nextToken(toks, statement.i), LAMBDA n :
         programLoop(toks, n.i, Append(statements, statement.ast))))
    ELSE Ok(i, statements)

\* "if !p.initialized { p.nextToken(); p.nextToken(); p.initialized = true }"
initialize(toks, i, inited) ==
    IF inited THEN Ok(i, NilNode)
    ELSE Bind(nextToken(toks, i), LAMBDA n1 : nextToken(toks, n1.i))

\* the panic raised by the type assertion r.(error) on a value that is no error
TypeAssertionPanic ==
    [kind |-> "runtime.TypeAssertionError", msg |-> <<"interface conversion: string is not error">>,
     errorToken |-> ZeroToken, pos |-> ZeroPos]

\* the deferred function of ParseProgram, r being the recovered value
recover(r) ==
    IF r.kind = "ParserError"
    THEN [outcome |-> "return", program |-> NilNode, err |-> r]
    ELSE [outcome |-> "panic",  program |-> NilNode, err |-> TypeAssertionPanic]

\* how ParseProgram ends, body being the outcome of its statements
finish(body) ==
    IF Failed(body)
    THEN recover(body.err)
    ELSE [outcome |-> "return",
          program |-> [type |-> "Program", Statements |-> body.ast],
          err     |-> NoError]

\* the parser state ParseProgram leaves and what it returned
parsed(body, end, inited) ==
    [outcome |-> end.outcome, program |-> end.program, err |-> end.err,
     i |-> body.i, initialized |-> inited]

bodyOf(toks, init) ==
    IF Failed(init) THEN init ELSE programLoop(toks, init.i, << >>)

parseProgramFrom(toks, init, inited) ==
    parsed(bodyOf(toks, init), finish(bodyOf(toks, init)), inited \/ ~ Failed(init))

\* Parser.ParseProgram on the parser state (i, inited): how the call ends
\* ("return" or "panic"), the results, and the parser state it leaves
ParseProgram(toks, i, inited) ==
    parseProgramFrom(toks, initialize(toks, i, inited), inited)

-----------------------------------------------------------------------------
(* The inputs of the parser *)

T(type, lit) == [Type |-> type, Literal |-> lit]

tLET == T("LET", "let")
tRETURN == T("RETURN", "return")
tFN == T("FUNCTION", "fn")
tIF == T("IF", "if")
tELSE == T("ELSE", "else")
tASSIGN == T("ASSIGN", "=")
tSEMI == T("SEMICOLON", ";")
tCOMMA == T("COMMA", ",")
tCOLON == T("COLON", ":")
tLP == T("LPAREN", "(")
tRP == T("RPAREN", ")")
tLB == T("LBRACE", "{")
tRB == T("RBRACE", "}")
tLK == T("LBRACKET", "[")
tRK == T("RBRACKET", "]")
tPLUS == T("PLUS", "+")
tMINUS == T("MINUS", "-")
tSTAR == T("ASTERISK", "*")
tLT == T("LT", "<")
tBANG == T("BANG", "!")
tINC == T("INC", "++")
tTRUE == T("TRUE", "true")
tFALSE == T("FALSE", "false")
tSTR == T("STRING", "s")
tBADINT == T("INT", "9223372036854775808")
tMALFORMED == T("MALFORMED", "@")
IdTok(name) == T("IDENT", name)
IntTok(lit) == T("INT", lit)

\* the tokens of the short inputs: the statement keywords, the delimiters, the
\* operator that is both prefix and infix, the operands and a malformed token
Alphabet ==
    { tLET, tRETURN, tFN, tASSIGN, tSEMI, tLP, tRP, tLB, tRB,
      tMINUS, tMALFORMED, IdTok("a"), IntTok("1") }

\* every token sequence of at most MaxShort tokens
ShortInputs == SeqsUpTo(Alphabet, MaxShort)

\* the k-th operand of a chain
ChainOperand(k) ==
    CASE k % 4 = 1 -> IdTok("a")
      [] k % 4 = 2 -> IntTok("1")
      [] k % 4 = 3 -> IdTok("b")
      [] OTHER     -> IntTok("0x10")

InfixTokens == { tLT, tPLUS, tMINUS, tSTAR }
PrefixChoices == { << >>, <<tMINUS>> }

\* operand 1, operator 1, operand 2, ... operand n, each operand after its prefix
RECURSIVE Chain(_, _, _, _)
Chain(n, ops, pre, k) ==
    IF k > n THEN << >>
    ELSE pre[k] \o <<ChainOperand(k)>> \o (IF k < n THEN <<ops[k]>> ELSE << >>)
           \o Chain(n, ops, pre, k + 1)

\* the well-formed chains of at most MaxOperands operands
ChainInputs ==
    UNION { { Chain(n, ops, pre, 1) : ops \in [1..(n - 1) -> InfixTokens],
                                      pre \in [1..n -> PrefixChoices] } : n \in 1..MaxOperands }

\* one prefix operator and two nested ones on one operand, bare and in
\* parentheses, alone and before an infix operator
NestedPrefixInputs ==
    { p1 \o p2 \o <<IdTok("a")>> \o rest :
          p1 \in {<<tMINUS>>, <<tBANG>>}, p2 \in {<< >>, <<tMINUS>>, <<tBANG>>},
          rest \in {<< >>} \cup { <<op, IntTok("1")>> : op \in InfixTokens } }
      \cup
    { p1 \o <<tLP>> \o p2 \o <<IdTok("a")>> \o <<tRP>> \o rest :
          p1 \in {<<tMINUS>>, <<tBANG>>}, p2 \in {<< >>, <<tMINUS>>, <<tBANG>>},
          rest \in {<< >>} \cup { <<op, IntTok("1")>> : op \in InfixTokens } }

\* function literals: with and without a name, parameters and a body
FunctionLiterals ==
    { <<tFN>> \o name \o <<tLP>> \o params \o <<tRP, tLB>> \o body \o <<tRB>> :
          name   \in { << >>, <<IdTok("g")>> },
          params \in { << >>, <<IdTok("a")>>, <<IdTok("a"), tCOMMA, IdTok("b")>> },
          body   \in { << >>, <<IdTok("a"), tPLUS, IdTok("b")>>,
                       <<tFN, tLP, tRP, tLB, tRB>>,
                       <<tLET, IdTok("h"), tASSIGN, tFN, tLP, tRP, tLB, tRB, tSEMI>> } }

\* the right-hand sides of the let statements: function literals, bare and in
\* parentheses, calls of a function literal, and expressions that hold none
LetValues ==
    FunctionLiterals
      \cup { <<tLP>> \o f \o <<tRP>> : f \in FunctionLiterals }
      \cup { f \o <<tLP, tRP>> : f \in FunctionLiterals }
      \cup { f \o <<tLP, IntTok("1"), tRP>> : f \in FunctionLiterals }
      \cup { <<tMINUS>> \o f : f \in FunctionLiterals }
      \cup { <<IdTok("a")>>, <<IntTok("1")>>, <<IdTok("a"), tPLUS, IntTok("1")>>, <<tLK, tRK>>, <<tLB, tRB>>,
             <<tTRUE>>, <<tFALSE>>, <<tSTR>>, <<IdTok("a"), tINC>>,
             <<tLK, IdTok("a"), tCOMMA, IntTok("1"), tRK>>,
             <<tLB, tSTR, tCOLON, IntTok("1"), tRB>>,
             <<IdTok("a"), tLK, IntTok("1"), tRK>>,
             <<tIF, tLP, IdTok("a"), tLT, IntTok("1"), tRP, tLB, IdTok("a"), tRB>>,
             <<tIF, tLP, tTRUE, tRP, tLB, IntTok("1"), tRB, tELSE, tLB, IdTok("b"), tRB>> }

LetInputs ==
    { <<tLET, IdTok("f"), tASSIGN>> \o v \o end :
          v \in LetValues, end \in { << >>, <<tSEMI>>, <<tSEMI, IdTok("c")>> } }

\* a well-formed input in which token k is replaced
Replace(toks, k, t) == [toks EXCEPT ![k] = t]

FaultTokens == { tMALFORMED, tBADINT, tRP, tASSIGN }

FaultyInputs ==
    UNION { { Replace(toks, k, t) : k \in 1..Len(toks), t \in FaultTokens } :
              toks \in { c \in ChainInputs : Len(c) <= 5 }
                         \cup { l \in LetInputs : Len(l) <= 12 } }

\* the element expressions of the array literals
ArrayElements ==
    { <<IdTok("a")>>, <<IntTok("1")>>, <<tLK, tRK>>, <<IdTok("a"), tPLUS, IntTok("1")>> }

ElementLists == SeqsUpTo(ArrayElements, MaxElements)

\* the elements of es in order, a comma between two of them
RECURSIVE CommaSeparated(_)
CommaSeparated(es) ==
    IF es = << >> THEN << >>
    ELSE IF Len(es) = 1 THEN es[1]
    ELSE es[1] \o <<tCOMMA>> \o CommaSeparated(Tail(es))

\* the array literal of the elements es, and the place of its k-th element
ArrayOf(es) == <<tLK>> \o CommaSeparated(es) \o <<tRK>>
ElementStart(es, k) == 2 + Len(CommaSeparated(SubSeq(es, 1, k - 1))) + (IF k > 1 THEN 1 ELSE 0)

\* the array literals of at most MaxElements elements
ArrayInputs == { ArrayOf(es) : es \in ElementLists }

\* the inputs that end before their construct is closed: every proper prefix
\* of a let statement and of an array literal
TruncatedInputs ==
    UNION { { SubSeq(toks, 1, n) : n \in 0..(Len(toks) - 1) } : toks \in LetInputs \cup ArrayInputs }

ParserInputs ==
    ShortInputs \cup ChainInputs \cup NestedPrefixInputs \cup LetInputs \cup FaultyInputs
      \cup ArrayInputs \cup TruncatedInputs

InitParser ==
    /\ input \in ParserInputs
    /\ initialized = FALSE
    /\ cur = -1
    /\ calls = 0
    /\ presult = [outcome |-> "none", program |-> NilNode, err |-> NoError]
    /\ VMIdle
    /\ CodeIdle
    /\ ReplIdle

\* program, err := p.ParseProgram()
ParseProgramCall ==
    /\ presult.outcome # "panic"
    /\ calls < MaxCalls
    /\ LET r == ParseProgram(input, cur, initialized)
       IN  /\ presult' = [outcome |-> r.outcome, program |-> r.program, err |-> r.err]
           /\ cur' = r.i
           /\ initialized' = r.initialized
    /\ calls' = calls + 1
    /\ UNCHANGED <<input, vmVars, codeVars, replVars>>

NextParser == ParseProgramCall

SpecParser == InitParser /\ [][NextParser]_vars

-----------------------------------------------------------------------------
(* package compiler and the VM with globals, as StartWithCompiler uses them *)

\* object.Integer and object.Boolean
IntegerObject(v) == [type |-> "INTEGER", value |-> v]
BooleanObject(v) == [type |-> "BOOLEAN", value |-> v]

\* Object.Inspect: the textual rendering of a value
Inspect(o) ==
    CASE o = IntegerObject(1)   -> "1"
      [] o = IntegerObject(2)   -> "2"
      [] o = BooleanObject(TRUE)  -> "true"
      [] o = BooleanObject(FALSE) -> "false"
      [] OTHER                  -> "?"

\* SymbolTable.Define: the next global slot; SymbolTable.Resolve: the slot of
\* the latest definition of the name, -1 when there is none
Define(symbols, name) == Append(symbols, name)
Resolve(symbols, name) ==
    IF \E k \in 1..Len(symbols) : symbols[k] = name
    THEN (CHOOSE k \in 1..Len(symbols) :
              symbols[k] = name /\ \A j \in (k + 1)..Len(symbols) : symbols[j] # name) - 1
    ELSE -1

\* compiler.NewWithStates(constants, symbolTable): the compiler works on its
\* own slice header of the constants and on the symbol table it was given
NewWithStates(cs, symbols) == [constants |-> cs, symbols |-> symbols, code |-> << >>, err |-> NoErr]

\* the compiler emits an instruction, unless it has failed before
emit(c, op, arg) ==
    IF c.err # NoErr THEN c ELSE [c EXCEPT !.code = Append(@, [op |-> op, arg |-> arg])]

\* a literal goes to the end of the constant pool and is loaded from there
addConstant(c, o) ==
    emit([c EXCEPT !.constants = Append(@, o)], "OpConstant", Len(c.constants))

\* the value of a let statement is compiled, then the name is defined and set
defineGlobal(c, name) ==
    IF c.err # NoErr THEN c
    ELSE emit([c EXCEPT !.symbols = Define(@, name)], "OpSetGlobal", Len(c.symbols))

\* Compiler.Compile on an expression
RECURSIVE compileExpression(_, _)
compileExpression(c, node) ==
    CASE node.type = "Integer"    -> addConstant(c, IntegerObject(node.Value))
      [] node.type = "Boolean"    -> emit(c, IF node.Value THEN "OpTrue" ELSE "OpFalse", 0)
      [] node.type = "Identifier" ->
             IF Resolve(c.symbols, node.Value) < 0
             THEN [c EXCEPT !.err = "undefined variable"]
             ELSE emit(c, "OpGetGlobal", Resolve(c.symbols, node.Value))
      [] node.type = "PrefixExpression" /\ node.Operator = "-" ->
             emit(compileExpression(c, node.Value), "OpMinus", 0)
      [] OTHER                    -> [c EXCEPT !.err = "unknown node"]

\* Compiler.Compile on a statement
compileStatement(c, node) ==
    CASE node.type = "LetStatement" ->
             defineGlobal(compileExpression(c, node.Value), node.Name.Value)
      [] node.type = "ExpressionStatement" ->
             emit(compileExpression(c, node.Value), "OpPop", 0)
      [] OTHER -> [c EXCEPT !.err = "unknown node"]

\* the statements from the k-th on, up to the first one that fails
RECURSIVE compileStatements(_, _, _)
compileStatements(c, statements, k) ==
    IF k > Len(statements) \/ c.err # NoErr THEN c
    ELSE compileStatements(compileStatement(c, statements[k]), statements, k + 1)

\* Compiler.Compile(program)
Compile(c, prog) == compileStatements(c, prog.Statements, 1)

\* vm.NewWithGlobals(bytecode, globals): the machine before its first instruction
NewWithGlobals(c, gs) == [stack |-> << >>, globals |-> gs, last |-> NilObject, err |-> NoErr]

top(m) == IF m.stack = << >> THEN NilObject ELSE m.stack[Len(m.stack)]
pop(m) == [m EXCEPT !.stack = IF @ = << >> THEN @ ELSE SubSeq(@, 1, Len(@) - 1), !.last = top(m)]
push(m, o) == [m EXCEPT !.stack = Append(@, o)]

\* the effect of one instruction
execute(m, ins, cs) ==
    CASE ins.op = "OpConstant"  -> push(m, cs[ins.arg + 1])
      [] ins.op = "OpTrue"      -> push(m, BooleanObject(TRUE))
      [] ins.op = "OpFalse"     -> push(m, BooleanObject(FALSE))
      [] ins.op = "OpGetGlobal" -> push(m, m.globals[ins.arg])
      [] ins.op = "OpSetGlobal" -> [pop(m) EXCEPT !.globals[ins.arg] = top(m)]
      [] ins.op = "OpPop"       -> pop(m)
      [] ins.op = "OpMinus"     ->
             IF top(m).type = "INTEGER"
             THEN push(pop(m), IntegerObject(0 - top(m).value))
             ELSE [m EXCEPT !.err = "unsupported type for negation"]
      [] OTHER -> [m EXCEPT !.err = "unknown opcode"]

\* VM.Run of the VM with globals: the instructions from the k-th on, up to a fault
RECURSIVE runFrom(_, _, _, _)
runFrom(m, code, cs, k) ==
    IF k > Len(code) \/ m.err # NoErr THEN m
    ELSE runFrom(execute(m, code[k], cs), code, cs, k + 1)

\* vm := vm.NewWithGlobals(c.Bytecode(), globals); err = vm.Run()
RunWithGlobals(c, gs) == runFrom(NewWithGlobals(c, gs), c.code, c.constants, 1)

\* VM.StackLastTop: the value popped last
StackLastTop(m) == m.last

-----------------------------------------------------------------------------
(* package repl *)

\* the locals of StartWithCompiler as one value
Session ==
    [constants |-> replConstants, globalSymbalTable |-> globalSymbalTable,
     globals |-> globals, out |-> out, pc |-> replPc]

\* fmt.Fprintf(out, format, err) and the two writes of a result
Response(kind, text) == [kind |-> kind, text |-> text]

\* parse failure that also starts the session's globals afresh
parseFailedResetsGlobals(S, err) ==
    [S EXCEPT !.out = Append(@, Response("parse program failed", Error(err))),
              !.globals = NewGlobals]

\* "if err != nil { fmt.Fprintf(out, "parse program failed: %s", err); continue }"
parseFailed(S, err) ==
    [S EXCEPT !.out = Append(@, Response("parse program failed", Error(err)))]

\* "if err != nil { fmt.Fprintf(out, "compile program failed: %s", err); continue }":
\* the symbol table is shared with the compiler, the constants are not
compileFailed(S, c) ==
    [S EXCEPT !.globalSymbalTable = c.symbols,
              !.out = Append(@, Response("compile program failed", c.err))]

\* the lines after vm.Run(): the globals are shared with the VM
vmRan(S, c, m) ==
    IF m.err # NoErr
    THEN [S EXCEPT !.globalSymbalTable = c.symbols, !.globals = m.globals,
                   !.out = Append(@, Response("vm run program failed", m.err))]
    ELSE [S EXCEPT !.globalSymbalTable = c.symbols, !.globals = m.globals,
                   !.out = Append(@, Response("result", <<Inspect(StackLastTop(m)), "\n">>))]

\* the lines after c.Compile(program)
compiled(S, c) ==
    IF c.err # NoErr THEN compileFailed(S, c) ELSE vmRan(S, c, RunWithGlobals(c, S.globals))

\* the lines after parser.ParseProgram(): a panic that leaves ParseProgram
\* leaves StartWithCompiler too, it has no recover
parsedLine(S, p) ==
    IF p.outcome = "panic" THEN [S EXCEPT !.pc = "panic"]
    ELSE IF p.err # NoError THEN parseFailed(S, p.err)
    ELSE compiled(S, Compile(NewWithStates(S.constants, S.globalSymbalTable), p.program))

\* one iteration of the for loop on a line that was read
loopBody(S, line) == parsedLine(S, ParseProgram(line, -1, FALSE))

\* the lines of the sessions: definitions, uses, a run fault after a
\* definition, an undefined name, a syntax fault and malformed input
ReplLines ==
    { <<tLET, IdTok("a"), tASSIGN, IntTok("1")>>,
      <<tLET, IdTok("b"), tASSIGN, IntTok("2")>>,
      <<tLET, IdTok("a"), tASSIGN, IdTok("b")>>,
      <<IdTok("a")>>,
      <<IdTok("b")>>,
      <<tLET, IdTok("b"), tASSIGN, IntTok("2"), tSEMI, tMINUS, tTRUE>>,
      <<IdTok("c")>>,
      <<tRP>>,
      <<tMALFORMED>> }

\* StartWithCompiler up to its for loop
InitRepl ==
    /\ scanner \in SeqsUpTo(ReplLines, MaxLines)
    /\ scanned = 0
    /\ out = << >>
    /\ replConstants = << >>
    /\ globalSymbalTable = NewSymbolTable
    /\ globals = NewGlobals
    /\ replPc = "loop"
    /\ VMIdle
    /\ CodeIdle
    /\ ParserIdle

\* the session becomes S
Becomes(S) ==
    /\ replConstants' = S.constants
    /\ globalSymbalTable' = S.globalSymbalTable
    /\ globals' = S.globals
    /\ out' = S.out
    /\ replPc' = S.pc

\* scanner.Scan() returns true: the line is parsed, compiled and run
ScanLine ==
    /\ replPc = "loop"
    /\ scanner # << >>
    /\ scanner' = Tail(scanner)
    /\ scanned' = scanned + 1
    /\ Becomes(loopBody(Session, Head(scanner)))
    /\ UNCHANGED <<vmVars, codeVars, parserVars>>

\* scanner.Scan() returns false: return
ScanEnd ==
    /\ replPc = "loop"
    /\ scanner = << >>
    /\ replPc' = "returned"
    /\ UNCHANGED <<scanner, scanned, out, replConstants, globalSymbalTable, globals,
                   vmVars, codeVars, parserVars>>

NextRepl ==
    \/ ScanLine
    \/ ScanEnd

SpecRepl == InitRepl /\ [][NextRepl]_vars

-----------------------------------------------------------------------------
(* Properties of the parser, checked under SpecParser *)

\* the first call of ParseProgram has ended and returned a program
FirstParseOk ==
    /\ calls = 1
    /\ presult.outcome = "return"
    /\ presult.err = NoError
    /\ presult.program # NilNode

OperandTypes == {"IDENT", "INT"}

\* operands at the odd places, binary infix operators at the even ones
IsPlainChain(toks) ==
    /\ Len(toks) % 2 = 1
    /\ \A k \in 1..Len(toks) :
          IF k % 2 = 1
          THEN toks[k].Type \in OperandTypes /\ ~ ParseIntFails(toks[k].Literal)
          ELSE toks[k].Type \in InfixOperators

\* the node of a single operand token
Leaf(toks, k) == prefixFn(toks, k).ast

\* the operator at which the chain lo..hi splits: of the operators of lowest
\* precedence, the rightmost
RootOperator(toks, lo, hi) ==
    CHOOSE r \in lo..hi :
        /\ (r - lo) % 2 = 1
        /\ \A q \in lo..hi : (q - lo) % 2 = 1 =>
              \/ Precedence(toks[q].Type) > Precedence(toks[r].Type)
              \/ (Precedence(toks[q].Type) = Precedence(toks[r].Type) /\ q <= r)

\* the tree of the chain lo..hi by the reference: split at the root operator
RECURSIVE RefTree(_, _, _)
RefTree(toks, lo, hi) ==
    IF lo = hi THEN Leaf(toks, lo)
    ELSE LET r == RootOperator(toks, lo, hi)
         IN  [type |-> "InfixExpression", Token |-> Tok(toks, r),
              Left |-> RefTree(toks, lo, r - 1), Operator |-> toks[r].Literal,
              Right |-> RefTree(toks, r + 1, hi)]

\* C4: for every well-formed chain of operands joined by binary infix
\* operators the parser builds the tree of the reference: an operator of higher
\* precedence to the right of an operand takes it first, operators of equal
\* precedence fold left to right.
C4_ChainMatchesReference ==
    (calls = 1 /\ IsPlainChain(input))
      => /\ FirstParseOk
         /\ Len(presult.program.Statements) = 1
         /\ presult.program.Statements[1].type = "ExpressionStatement"
         /\ presult.program.Statements[1].Value = RefTree(input, 1, Len(input))

\* a + 1 * b + 0x10 was parsed: the multiplication is the right operand of the
\* first addition, which is the left operand of the second
C4_Witness ==
    /\ FirstParseOk
    /\ input = <<IdTok("a"), tPLUS, IntTok("1"), tSTAR, IdTok("b"), tPLUS, IntTok("0x10")>>
    /\ presult.program.Statements[1].Value.Operator = "+"
    /\ presult.program.Statements[1].Value.Left.Operator = "+"
    /\ presult.program.Statements[1].Value.Left.Right.Operator = "*"
    /\ presult.program.Statements[1].Value.Left.Right.Left.Value = 1

\* the nodes of an expression tree made of operands, prefix and infix expressions
RECURSIVE Nodes(_)
Nodes(n) ==
    CASE n.type = "InfixExpression"  -> {n} \cup Nodes(n.Left) \cup Nodes(n.Right)
      [] n.type = "PrefixExpression" -> {n} \cup Nodes(n.Value)
      [] OTHER                       -> {n}

\* the node built for the token at place k, NilNode when there is none
NodeAt(tree, k) ==
    IF \E n \in Nodes(tree) : n.Token.Pos.Column = k
    THEN CHOOSE n \in Nodes(tree) : n.Token.Pos.Column = k
    ELSE NilNode

\* place k is where an operand is expected, so an operator there is a prefix operator
OperandPlace(toks, k) ==
    k = 1 \/ toks[k - 1].Type \in (InfixOperators \cup PrefixOperators \cup {"LPAREN"})

IsPrefixAt(toks, k) ==
    k \in 1..Len(toks) /\ toks[k].Type \in PrefixOperators /\ OperandPlace(toks, k)

\* C5: the operand of a prefix operator is parsed with the operator's own
\* precedence as threshold: when the operand is followed by an infix operator
\* whose precedence does not exceed the prefix operator's, the operand of the
\* PrefixExpression is that one operand and the prefix expression lies in the
\* left operand of the infix operator (it is the left operand when it starts
\* the expression); a prefix operator before a prefix expression takes that
\* prefix expression as the start of its operand.
C5_PrefixOperand ==
    (calls = 1 /\ input \in (ChainInputs \cup NestedPrefixInputs))
      => /\ FirstParseOk
         /\ Len(presult.program.Statements) = 1
         /\ LET tree == presult.program.Statements[1].Value
            IN  \A k \in 1..Len(input) : IsPrefixAt(input, k) =>
                  /\ NodeAt(tree, k).type = "PrefixExpression"
                  /\ NodeAt(tree, k).Operator = input[k].Literal
                  \* one operand, then an infix operator that does not bind tighter
                  /\ ( /\ k + 2 <= Len(input)
                       /\ input[k + 1].Type \in OperandTypes
                       /\ input[k + 2].Type \in InfixOperators
                       /\ Precedence(input[k + 2].Type) <= Precedence(input[k].Type) )
                     => /\ NodeAt(tree, k).Value = Leaf(input, k + 1)
                        /\ NodeAt(tree, k + 2).type = "InfixExpression"
                        /\ NodeAt(tree, k) \in Nodes(NodeAt(tree, k + 2).Left)
                        /\ (k = 1 => NodeAt(tree, k + 2).Left = NodeAt(tree, k))
                  \* one operand and nothing after it
                  /\ (k + 1 = Len(input) /\ input[k + 1].Type \in OperandTypes)
                     => NodeAt(tree, k).Value = Leaf(input, k + 1)
                  \* a nested prefix, bare or in parentheses
                  /\ IsPrefixAt(input, k + 1)
                     => /\ NodeAt(tree, k + 1) \in Nodes(NodeAt(tree, k).Value)
                        /\ (k + 2 = Len(input) => NodeAt(tree, k).Value = NodeAt(tree, k + 1))
                  /\ (k + 1 <= Len(input) /\ input[k + 1].Type = "LPAREN" /\ IsPrefixAt(input, k + 2))
                     => NodeAt(tree, k + 2) \in Nodes(NodeAt(tree, k).Value)

\* -1 + b was parsed (after a first operand and a product sign or not): the
\* operand of the negation is 1 alone and the negation is the left operand of +
C5_Witness ==
    /\ FirstParseOk
    /\ input = <<tMINUS, IdTok("a"), tPLUS, IntTok("1")>>
    /\ presult.program.Statements[1].Value.type = "InfixExpression"
    /\ presult.program.Statements[1].Value.Left.type = "PrefixExpression"
    /\ presult.program.Statements[1].Value.Left.Value = Leaf(input, 2)

\* C6: in `let name = expr;` whose right-hand expression parses to a function
\* literal, the FunctionExpression's Name is the identifier of the let; when the
\* right-hand expression is not itself a function literal, the let statement
\* changes the name of no function node.
C6_LetNamesFunction ==
    (calls = 1 /\ input \in LetInputs)
      => /\ FirstParseOk
         /\ Len(presult.program.Statements) >= 1
         /\ LET stmt == presult.program.Statements[1]
                rhs  == parseExpression(input, 4, LOWEST_PRECEDENCE).ast
            IN  /\ stmt.type = "LetStatement"
                /\ stmt.Name = Identifier(Tok(input, 2))
                /\ IF rhs.type = "FunctionExpression"
                   THEN /\ stmt.Value.type = "FunctionExpression"
                        /\ stmt.Value.Name = stmt.Name
                        /\ stmt.Value.Parameters = rhs.Parameters
                        /\ stmt.Value.Body = rhs.Body
                   ELSE stmt.Value = rhs

\* let f = fn(a, b) { a + b }; was parsed and the function is named f
C6_Witness ==
    /\ FirstParseOk
    /\ input = <<tLET, IdTok("f"), tASSIGN, tFN, tLP, IdTok("a"), tCOMMA, IdTok("b"), tRP,
                 tLB, IdTok("a"), tPLUS, IdTok("b"), tRB, tSEMI>>
    /\ presult.program.Statements[1].Value.type = "FunctionExpression"
    /\ presult.program.Statements[1].Value.Name.Value = "f"

\* the lexer reached a place of malformed input and called the error handler
LexerReported == \E k \in 1..(cur + 1) : Malformed(input, k)

\* C7: when the tokenizer reports malformed input through the error callback
\* during ParseProgram, ParseProgram returns a nil program and a non-nil error;
\* the fault does not leave ParseProgram as a panic.
C7_LexicalFaultReturned ==
    (calls >= 1 /\ LexerReported)
      => /\ presult.outcome = "return"
         /\ presult.program = NilNode
         /\ presult.err # NoError

\* C8: ParseProgram returns exactly one of (program, nil) and (nil, error); when
\* a syntax fault is raised parsing stops there: the cursor stays at the
\* offending token, the error returned is the first fault raised, the statements
\* parsed before it are dropped.
C8_FirstSyntaxFaultReturned ==
    (calls >= 1 /\ presult.outcome = "return")
      => /\ (presult.program = NilNode) # (presult.err = NoError)
         /\ presult.program # NilNode => presult.program.type = "Program"
         /\ presult.err # NoError =>
               /\ presult.err.kind = "ParserError"
               /\ presult.err.errorToken \in {Tok(input, cur), Tok(input, cur + 1)}
         /\ calls = 1 =>
               LET s1 == parseStatement(input, 1)
                   s2 == parseStatement(input, s1.i + 1)
               IN  /\ (Tok(input, 1).Type # "EOF" /\ Failed(s1))
                       => (presult.program = NilNode /\ presult.err = s1.err /\ cur = s1.i)
                   /\ ( /\ Tok(input, 1).Type # "EOF"
                        /\ ~ Failed(s1)
                        /\ Tok(input, s1.i + 1).Type # "EOF"
                        /\ Failed(s2) )
                       => (presult.program = NilNode /\ presult.err = s2.err /\ cur = s2.i)

\* a; ) was parsed: the first statement is dropped and the error is the fault at )
C8_Witness ==
    /\ calls = 1
    /\ input = <<IdTok("a"), tSEMI, tRP>>
    /\ presult.outcome = "return"
    /\ presult.program = NilNode
    /\ presult.err.kind = "ParserError"
    /\ presult.err.errorToken = Tok(input, 3)
    /\ cur = 3

\* C15: every syntax error ParseProgram returns carries the offending token,
\* and the line and column of its message are the position of that token.
C15_ErrorPositionIsTokenPosition ==
    (calls >= 1 /\ presult.outcome = "return" /\ presult.err # NoError)
      => /\ presult.err.errorToken \in {Tok(input, cur), Tok(input, cur + 1)}
         /\ Error(presult.err).line = presult.err.errorToken.Pos.Line
         /\ Error(presult.err).column = presult.err.errorToken.Pos.Column

\* C17: an array literal of n comma-separated element expressions is parsed
\* to an ArrayLiteral node whose elements are those n expressions in source
\* order, for n = 0, 1, 2, ..., elements that are array literals included.
C17_ArrayLiteralElements ==
    calls = 1 =>
        \A es \in ElementLists :
            input = ArrayOf(es) =>
                /\ FirstParseOk
                /\ Len(presult.program.Statements) = 1
                /\ presult.program.Statements[1].Value.type = "ArrayLiteral"
                /\ Len(presult.program.Statements[1].Value.Elements) = Len(es)
                /\ \A k \in 1..Len(es) :
                       presult.program.Statements[1].Value.Elements[k]
                         = parseExpression(input, ElementStart(es, k), LOWEST_PRECEDENCE).ast

\* the expressions of the input whose first and last token are known from the
\* way the input was built: the whole of a chain, of a prefix expression and
\* of an array literal, every element of an array literal, and the value of a
\* let statement
ExpressionSpans(toks) ==
    (IF toks \in ChainInputs \cup NestedPrefixInputs \cup ArrayInputs
     THEN { <<1, Len(toks)>> } ELSE { })
      \cup UNION { IF toks = ArrayOf(es)
                   THEN { <<ElementStart(es, k), ElementStart(es, k) + Len(es[k]) - 1>> : k \in 1..Len(es) }
                   ELSE { } : es \in ElementLists }
      \cup { <<4, Len(toks)>> : v \in { w \in LetValues : toks = <<tLET, IdTok("f"), tASSIGN>> \o w } }

\* C18: when parseExpression is entered with the current token on the first
\* token of an expression and returns, the current token is the last token of
\* that expression.
C18_CursorOnLastToken ==
    calls >= 1 =>
        \A span \in ExpressionSpans(input) :
            ~ Failed(parseExpression(input, span[1], LOWEST_PRECEDENCE))
              => parseExpression(input, span[1], LOWEST_PRECEDENCE).i = span[2]

\* the lexer finds no malformed input: the source text is a sequence of tokens
NoMalformed(toks) == \A k \in 1..Len(toks) : ~ Malformed(toks, k)

\* C20: on every finite token sequence ParseProgram ends and returns a program
\* or an error; its loops stop at end-of-input, so the cursor never passes the
\* first end-of-input token, and each statement of the program took a token.
C20_ParseProgramTerminates ==
    (calls >= 1 /\ NoMalformed(input))
      => /\ presult.outcome = "return"
         /\ (presult.program = NilNode) # (presult.err = NoError)
         /\ cur <= Len(input) + 1
         /\ presult.program # NilNode => Len(presult.program.Statements) <= Len(input)

\* the unterminated hash literal  let f = { "s" : 1  was parsed: an error is
\* returned with the cursor on the end-of-input token
C20_Witness ==
    /\ calls = 1
    /\ input = <<tLET, IdTok("f"), tASSIGN, tLB, tSTR, tCOLON, IntTok("1")>>
    /\ presult.outcome = "return"
    /\ presult.program = NilNode
    /\ presult.err.kind = "ParserError"
    /\ cur = Len(input) + 1

-----------------------------------------------------------------------------
(* Properties of the interactive front end, checked under SpecRepl *)

\* the compiler of the line about to be read, after Compile, when the line parses
LineCompiled ==
    Compile(NewWithStates(replConstants, globalSymbalTable),
            ParseProgram(Head(scanner), -1, FALSE).program)

\* a line is read in this step and the response written for it is of kind k
LineEnds(k) ==
    /\ replPc = "loop"
    /\ scanner # << >>
    /\ scanned' = scanned + 1
    /\ Len(out') = Len(out) + 1
    /\ out'[Len(out')].kind = k

\* C11: the constants, the symbol table and the globals persist across the
\* lines of a session: after a line processed with success the session holds
\* the constants, the symbols and the globals the line's compiler and VM ended
\* with, and the next line is compiled and run against them; before the first
\* line all three are empty.
C11_SessionStatePersists ==
    [][ /\ scanned = 0 =>
              (replConstants = << >> /\ globalSymbalTable = NewSymbolTable /\ globals = NewGlobals)
        /\ LineEnds("result") =>
              /\ replConstants' = LineCompiled.constants
              /\ globalSymbalTable' = LineCompiled.symbols
              /\ globals' = RunWithGlobals(LineCompiled, globals).globals ]_vars

\* the global slots the instructions of a line assign
AssignedSlots(code) == { code[k].arg : k \in { j \in 1..Len(code) : code[j].op = "OpSetGlobal" } }

\* C12: a line that fails to parse leaves the constants, the symbol table and
\* the globals as they were; after a line that fails at compile or at run,
\* every global slot the line did not assign holds the value it held before.
C12_FailedLineKeepsState ==
    [][ /\ ( /\ replPc = "loop"
             /\ scanner # << >>
             /\ scanned' = scanned + 1
             /\ ParseProgram(Head(scanner), -1, FALSE).program = NilNode )
           => UNCHANGED <<replConstants, globalSymbalTable, globals>>
        /\ (LineEnds("compile program failed") \/ LineEnds("vm run program failed"))
           => \A slot \in DOMAIN globals :
                  slot \notin AssignedSlots(LineCompiled.code) => globals'[slot] = globals[slot] ]_vars

\* let a = 1 was processed, then  let b = 2; -true  failed at run after it had
\* assigned b: a still holds 1
C12_Witness ==
    /\ scanned = 2
    /\ Len(out) = 2
    /\ out[1].kind = "result"
    /\ out[2].kind = "vm run program failed"
    /\ globals[0] = IntegerObject(1)
    /\ globals[1] = IntegerObject(2)

ResponseKinds ==
    {"parse program failed", "compile program failed", "vm run program failed", "result"}

\* C13: for every line read exactly one response is written to out, in input
\* order, each of one of the four kinds; after each of them the loop reads the
\* next line, and the session ends only when the input is exhausted.
C13_OneResponsePerLine ==
    /\ Len(out) = scanned
    /\ \A k \in 1..Len(out) : out[k].kind \in ResponseKinds
    /\ replPc \in {"loop", "returned"}
    /\ replPc = "returned" => scanner = << >>

-----------------------------------------------------------------------------
(* Properties of the instruction encoding, checked under SpecCode *)

RECURSIVE SumSeq(_)
SumSeq(q) == IF q = << >> THEN 0 ELSE Head(q) + SumSeq(Tail(q))

\* value of a byte string read as a big-endian number
RECURSIVE BigEndianValue(_)
BigEndianValue(bytes) ==
    IF bytes = << >> THEN 0
    ELSE bytes[Len(bytes)] + 256 * BigEndianValue(SubSeq(bytes, 1, Len(bytes) - 1))

\* offset in the instruction of the first byte of operand k
OperandOffset(op, k) == 2 + SumSeq(SubSeq(OperandWidths(op), 1, k - 1))

OperandFits(v, width) == v >= 0 /\ v < 256 ^ width

\* C9: Make returns the opcode byte followed by each operand, big-endian, in
\* the opcode's fixed width, and nothing else; on the four cases of TestMake
\* it returns the expected instructions.
C9_MakeLayout ==
    codePc # "idle" =>
      LET widths == OperandWidths(mkOp)
      IN  /\ Len(encoded) = 1 + SumSeq(widths)
          /\ encoded[1] = mkOp
          /\ \A j \in 1..Len(encoded) : encoded[j] \in 0..255
          /\ \A k \in 1..Len(widths) :
                 OperandFits(mkOperands[k], widths[k]) =>
                    BigEndianValue(SubSeq(encoded, OperandOffset(mkOp, k),
                                          OperandOffset(mkOp, k) + widths[k] - 1)) = mkOperands[k]
          /\ \A t \in 1..Len(TestMakeTests) :
                 (mkOp = TestMakeTests[t].code /\ mkOperands = TestMakeTests[t].operands)
                    => encoded = TestMakeTests[t].expectedInstructions

\* Make(OpClosure, 65534, 255) has returned
C9_Witness ==
    /\ codePc = "made"
    /\ mkOp = OpClosure
    /\ mkOperands = <<65534, 255>>
    /\ encoded = <<OpClosure, 255, 254, 255>>

\* C10: for every constant-pool index i in 0..65535, Make(OpConstant, i) is 3
\* bytes long and the run loop's ReadUint16 of its operand bytes yields i.
C10_ConstantIndexRoundTrip ==
    (codePc = "read" /\ mkOp = OpConstant /\ mkOperands[1] \in 0..MaxUint16)
      => (decoded = mkOperands[1] /\ Len(encoded) = 3)

\* the largest index went through Make and the operand read
C10_Witness ==
    /\ codePc = "read"
    /\ mkOp = OpConstant
    /\ mkOperands = <<MaxUint16>>
    /\ encoded = <<OpConstant, 255, 255>>
    /\ decoded = MaxUint16

====
